---- MODULE Spec2Model ----
(***************************************************************************)
(* Model of databusclient/client.py: the distribution descriptor codec     *)
(* (create_distribution, __get_file_info and its helpers) and download().  *)
(*                                                                         *)
(* A Python str is a sequence of tokens.  A token is one character the     *)
(* code looks at ("|", "_", "=", ":", ".", "/", "#", blank, sign, a digit)  *)
(* or a word: a run of characters none of which the code inspects.         *)
(* Python None is the empty tuple <<>> and a present value x is <<x>>.     *)
(***************************************************************************)
EXTENDS Integers, Sequences, FiniteSets, TLC

(***************************************************************************)
(* Python str primitives                                                   *)
(***************************************************************************)

None == <<>>

Some(x) == <<x>>

Whitespace == {" ", "\t", "\n"}

DigitChars == <<"0", "1", "2", "3", "4", "5", "6", "7", "8", "9">>

IsDigit(c) == \E i \in 1..10 : DigitChars[i] = c

DigitVal(c) == (CHOOSE i \in 1..10 : DigitChars[i] = c) - 1

\* c in s
Contains(s, c) == \E i \in 1..Len(s) : s[i] = c

\* number of occurrences of c in s
RECURSIVE Count(_, _)
Count(s, c) ==
    IF s = <<>> THEN 0
    ELSE (IF Head(s) = c THEN 1 ELSE 0) + Count(Tail(s), c)

\* s.split(sep) for a one-character separator
RECURSIVE Split(_, _)
Split(s, sep) ==
    IF ~Contains(s, sep) THEN <<s>>
    ELSE LET i == CHOOSE k \in 1..Len(s) :
                      s[k] = sep /\ \A j \in 1..(k - 1) : s[j] # sep
         IN  <<SubSeq(s, 1, i - 1)>> \o Split(SubSeq(s, i + 1, Len(s)), sep)

\* s.rsplit(sep, maxsplit)
RECURSIVE RSplit(_, _, _)
RSplit(s, sep, maxsplit) ==
    IF maxsplit = 0 \/ ~Contains(s, sep) THEN <<s>>
    ELSE LET i == CHOOSE k \in 1..Len(s) :
                      s[k] = sep /\ \A j \in (k + 1)..Len(s) : s[j] # sep
         IN  RSplit(SubSeq(s, 1, i - 1), sep, maxsplit - 1)
                 \o <<SubSeq(s, i + 1, Len(s))>>

\* s.lstrip(chars), s.rstrip(chars), s.strip(chars)
RECURSIVE LStrip(_, _)
LStrip(s, chars) ==
    IF s # <<>> /\ Head(s) \in chars THEN LStrip(Tail(s), chars) ELSE s

RECURSIVE RStrip(_, _)
RStrip(s, chars) ==
    IF s # <<>> /\ s[Len(s)] \in chars
    THEN RStrip(SubSeq(s, 1, Len(s) - 1), chars)
    ELSE s

Strip(s, chars) == RStrip(LStrip(s, chars), chars)

\* sep.join(strs)
RECURSIVE Join(_, _)
Join(strs, sep) ==
    IF strs = <<>> THEN <<>>
    ELSE IF Len(strs) = 1 THEN strs[1]
    ELSE strs[1] \o sep \o Join(Tail(strs), sep)

\* s.startswith(prefix)
StartsWith(s, prefix) ==
    Len(s) >= Len(prefix) /\ SubSeq(s, 1, Len(prefix)) = prefix

\* pat in s, for a substring pat
IsInfix(pat, s) ==
    \E i \in 0..(Len(s) - Len(pat)) : SubSeq(s, i + 1, i + Len(pat)) = pat

\* the digits of an integer literal body, "_" between digits dropped
RECURSIVE DropUnderscores(_)
DropUnderscores(s) ==
    IF s = <<>> THEN <<>>
    ELSE IF Head(s) = "_" THEN DropUnderscores(Tail(s))
    ELSE <<Head(s)>> \o DropUnderscores(Tail(s))

RECURSIVE DigitsValue(_)
DigitsValue(s) ==
    IF s = <<>> THEN 0
    ELSE 10 * DigitsValue(SubSeq(s, 1, Len(s) - 1)) + DigitVal(s[Len(s)])

\* the unsigned body of the literal int() is given: blanks and sign removed
IntBody(s) ==
    LET t == Strip(s, Whitespace)
    IN  IF t # <<>> /\ Head(t) \in {"+", "-"} THEN Tail(t) ELSE t

\* int(s) succeeds
IsIntLiteral(s) ==
    LET b == IntBody(s)
    IN  /\ b # <<>>
        /\ IsDigit(b[1])
        /\ IsDigit(b[Len(b)])
        /\ \A i \in 1..Len(b) : IsDigit(b[i]) \/ b[i] = "_"
        /\ \A i \in 1..(Len(b) - 1) : ~(b[i] = "_" /\ b[i + 1] = "_")

\* int(s), where it succeeds
ParseInt(s) ==
    LET t == Strip(s, Whitespace)
        v == DigitsValue(DropUnderscores(IntBody(s)))
    IN  IF t # <<>> /\ Head(t) = "-" THEN 0 - v ELSE v

\* str(n) for an int n
RECURSIVE NatToStr(_)
NatToStr(n) ==
    IF n < 10 THEN <<DigitChars[n + 1]>>
    ELSE NatToStr(n \div 10) \o <<DigitChars[(n % 10) + 1]>>

IntToStr(n) == IF n < 0 THEN <<"-">> \o NatToStr(0 - n) ELSE NatToStr(n)

(***************************************************************************)
(* Python dict, insertion ordered: a sequence of <<key, value>> pairs      *)
(***************************************************************************)

DictKeys(d) == {d[i][1] : i \in 1..Len(d)}

\* mutant of DictSet: a new key goes first
DictSetFront(d, key, value) ==
    IF key \in DictKeys(d)
    THEN [i \in 1..Len(d) |-> IF d[i][1] = key THEN <<key, value>> ELSE d[i]]
    ELSE <<<<key, value>>>> \o d

\* d[key] = value: a present key keeps its place, a new key goes last
DictSet(d, key, value) ==
    IF key \in DictKeys(d)
    THEN [i \in 1..Len(d) |-> IF d[i][1] = key THEN <<key, value>> ELSE d[i]]
    ELSE Append(d, <<key, value>>)

\* [f"{key}={value}" for key, value in cvs.items()]
ItemStrings(d) == [i \in 1..Len(d) |-> d[i][1] \o <<"=">> \o d[i][2]]

(***************************************************************************)
(* The decoder's resolvers (client.py:29-152)                              *)
(***************************************************************************)

\* list[i] with Python's indexing: i >= 0 from the front, i < 0 from the back
PyIndex(list, i) == IF i < 0 THEN list[Len(list) + i + 1] ELSE list[i + 1]

\* distribution_str.split("|")[1:]
MetadataList(distribution_str) == Tail(Split(distribution_str, "|"))

\* the loop of __get_content_variants over cv_str.split("_"), from dict cvs
RECURSIVE CvsLoop(_, _)
CvsLoop(kvs, cvs) ==
    IF kvs = <<>> THEN [exc |-> "none", cvs |-> cvs]
    ELSE LET kv == Split(Head(kvs), "=")
         IN  IF Len(kv) # 2
             THEN [exc |-> "ValueError", cvs |-> <<>>]
             ELSE CvsLoop(Tail(kvs), DictSet(cvs, kv[1], kv[2]))

__get_content_variants(distribution_str) ==
    LET args == Split(distribution_str, "|")
    IN  IF Len(args) < 2 \/ Strip(args[2], Whitespace) = <<>>
        THEN [exc |-> "none", cvs |-> <<>>]
        ELSE CvsLoop(Split(Strip(args[2], {"_"}), "_"), <<>>)

\* mutant of __get_filetype_definition: the colon of the last segment is
\* not looked at
FiletypeDefinitionNoColon(distribution_str) ==
    LET metadata_list == MetadataList(distribution_str)
    IN  IF Len(metadata_list) = 4
        THEN <<Some(PyIndex(metadata_list, -3)), Some(PyIndex(metadata_list, -2))>>
        ELSE IF Len(metadata_list) = 3
        THEN <<Some(PyIndex(metadata_list, -2)), Some(PyIndex(metadata_list, -1))>>
        ELSE IF Len(metadata_list) = 2
        THEN <<Some(PyIndex(metadata_list, -1)), None>>
        ELSE <<None, None>>

\* <<file_ext, compression>>, each None or Some(label)
__get_filetype_definition(distribution_str) ==
    LET metadata_list == MetadataList(distribution_str)
    IN  IF Len(metadata_list) = 4
        THEN <<Some(PyIndex(metadata_list, -3)), Some(PyIndex(metadata_list, -2))>>
        ELSE IF Len(metadata_list) = 3
        THEN IF Contains(PyIndex(metadata_list, -1), ":")
             THEN <<Some(PyIndex(metadata_list, -2)), None>>
             ELSE <<Some(PyIndex(metadata_list, -2)), Some(PyIndex(metadata_list, -1))>>
        ELSE IF Len(metadata_list) = 2
        THEN IF Contains(PyIndex(metadata_list, -1), ":")
             THEN <<None, None>>
             ELSE <<Some(PyIndex(metadata_list, -1)), None>>
        ELSE <<None, None>>

\* mutant of DotSplits: rsplit(".", 1)
DotSplitsOnce(distribution_str) ==
    LET last_segment ==
            PyIndex(Split(PyIndex(Split(distribution_str, "|"), 0), "/"), -1)
    IN  RSplit(PyIndex(Split(last_segment, "#"), 0), ".", 1)

\* the URL's last path segment, fragment cut off, split by dots (106-109)
DotSplits(distribution_str) ==
    LET last_segment ==
            PyIndex(Split(PyIndex(Split(distribution_str, "|"), 0), "/"), -1)
    IN  RSplit(PyIndex(Split(last_segment, "#"), 0), ".", 2)

\* <<extension_part, format_extension, compression>>
__get_extensions(distribution_str) ==
    LET ftd == __get_filetype_definition(distribution_str)
        dot_splits == DotSplits(distribution_str)
    IN  IF ftd[1] # None
        THEN IF ftd[2] # None
             THEN <<<<".">> \o ftd[1][1] \o <<".">> \o ftd[2][1], ftd[1][1], ftd[2][1]>>
             ELSE <<<<".">> \o ftd[1][1], ftd[1][1], <<"none">>>>
        ELSE IF Len(dot_splits) > 2
        THEN <<<<".">> \o PyIndex(dot_splits, -2) \o <<".">> \o PyIndex(dot_splits, -1),
               PyIndex(dot_splits, -2), PyIndex(dot_splits, -1)>>
        ELSE IF Len(dot_splits) > 1
        THEN <<<<".">> \o PyIndex(dot_splits, -1), PyIndex(dot_splits, -1), <<"none">>>>
        ELSE <<<<>>, <<"file">>, <<"none">>>>

\* mutant of __get_file_stats: the colon is looked for in the first segment
\* after the URL
FileStatsFirstSegment(distribution_str) ==
    LET metadata_list == MetadataList(distribution_str)
        last_arg_split == Split(PyIndex(metadata_list, -1), ":")
    IN  IF Len(metadata_list) = 0 \/ ~Contains(PyIndex(metadata_list, 0), ":")
        THEN [exc |-> "none", sha256sum |-> None, content_length |-> None]
        ELSE IF Len(last_arg_split) # 2
        THEN [exc |-> "ValueError", sha256sum |-> None, content_length |-> None]
        ELSE IF ~IsIntLiteral(last_arg_split[2])
        THEN [exc |-> "ValueError", sha256sum |-> None, content_length |-> None]
        ELSE [exc |-> "none", sha256sum |-> Some(last_arg_split[1]),
              content_length |-> Some(ParseInt(last_arg_split[2]))]

\* mutant of __get_file_stats: parts after the second are dropped
FileStatsTruncating(distribution_str) ==
    LET metadata_list == MetadataList(distribution_str)
        last_arg_split == Split(PyIndex(metadata_list, -1), ":")
    IN  IF Len(metadata_list) = 0 \/ ~Contains(PyIndex(metadata_list, -1), ":")
        THEN [exc |-> "none", sha256sum |-> None, content_length |-> None]
        ELSE IF ~IsIntLiteral(last_arg_split[2])
        THEN [exc |-> "ValueError", sha256sum |-> None, content_length |-> None]
        ELSE [exc |-> "none", sha256sum |-> Some(last_arg_split[1]),
              content_length |-> Some(ParseInt(last_arg_split[2]))]

\* sha256sum and content_length are None or Some(value)
__get_file_stats(distribution_str) ==
    LET metadata_list == MetadataList(distribution_str)
        last_arg_split == Split(PyIndex(metadata_list, -1), ":")
    IN  IF Len(metadata_list) = 0 \/ ~Contains(PyIndex(metadata_list, -1), ":")
        THEN [exc |-> "none", sha256sum |-> None, content_length |-> None]
        ELSE IF Len(last_arg_split) # 2
        THEN [exc |-> "ValueError", sha256sum |-> None, content_length |-> None]
        ELSE IF ~IsIntLiteral(last_arg_split[2])
        THEN [exc |-> "ValueError", sha256sum |-> None, content_length |-> None]
        ELSE [exc |-> "none", sha256sum |-> Some(last_arg_split[1]),
              content_length |-> Some(ParseInt(last_arg_split[2]))]

\* hashlib.sha256(content).hexdigest(): written as the word "sha256of" and
\* the tokens digested, so that different inputs have different digests;
\* nothing in the code reads inside a digest
Sha256Hex(content) == <<"sha256of">> \o content

\* resp.status_code > 400 raises
StatusRaises(status_code) == status_code > 400

\* __load_file_stats on the response requests.get(url) gave
__load_file_stats(resp) ==
    IF StatusRaises(resp.status_code)
    THEN [exc |-> "RequestException", sha256sum |-> None, content_length |-> None]
    ELSE [exc |-> "none", sha256sum |-> Some(Sha256Hex(resp.content)),
          content_length |-> Some(Len(resp.content))]

(***************************************************************************)
(* The encoder (client.py:173-204)                                         *)
(***************************************************************************)

\* file_format, compression: None or Some(label);
\* sha256_length_tuple: None or Some(<<sha256sum, content_length>>)
create_distribution(url, cvs, file_format, compression, sha256_length_tuple) ==
    LET meta0 == Join(ItemStrings(cvs), <<"_">>)
        meta1 == IF file_format # None
                 THEN meta0 \o <<"|">> \o file_format[1] ELSE meta0
        meta2 == IF compression # None
                 THEN meta1 \o <<"|">> \o compression[1] ELSE meta1
        meta3 == IF sha256_length_tuple # None
                 THEN meta2 \o <<"|">> \o sha256_length_tuple[1][1] \o <<":">>
                            \o IntToStr(sha256_length_tuple[1][2])
                 ELSE meta2
    IN  url \o <<"|">> \o meta3

(***************************************************************************)
(* Inputs                                                                  *)
(***************************************************************************)

\* the segments after the URL of the longest descriptor the grammar reads:
\* variants, format, compression, checksum:length
MaxGrammarSegs == 4

\* most "|"-delimited segments after the URL in a descriptor given to the decoder
MaxSegs == 5

\* most segments after the URL when the URL is varied
MaxInferSegs == 3

\* most content variants in a mapping given to the encoder
MaxCvs == 2

\* most identifiers in one download() call, most bindings in one query result
MaxURIs == 2

MaxBindings == 2

Site == <<"https", ":", "/", "/", "h", ".", "org", "/">>

BaseUrl == Site \o <<"data", ".", "json", ".", "gz">>

Urls ==
    { Site \o name : name \in
        { <<"data">>,
          <<"data", ".", "json">>,
          <<"data", ".", "json", ".", "gz">>,
          <<"v1", ".", "data", ".", "json", ".", "gz">>,
          <<"data", ".", "json", "#", "frag">>,
          <<"data", ".", "json", "#", "a", "/", "b">>,
          <<"data", ".", "json", "#", "a", ".", "b">>,
          <<"data", "#", "a", ".", "b", ".", "c">> } }

\* segments a caller may write between the pipes
Segs ==
    { <<>>,
      <<" ">>,
      <<"b", "=", "1", "_", "a", "=", "2">>,
      <<"_", "a", "=", "b">>,
      <<"yml">>,
      <<"h", ":", "1", "2">>,
      <<"h", ":", "1", ":", "2">> }

\* segments of the descriptors longer than the grammar's longest
LongSegs ==
    { <<>>,
      <<"b", "=", "1", "_", "a", "=", "2">>,
      <<"yml">>,
      <<"h", ":", "1", "2">> }

SegLists(n) == UNION { [1..k -> Segs] : k \in 0..n }

LongSegLists == UNION { [1..k -> LongSegs] : k \in (MaxGrammarSegs + 1)..MaxSegs }

\* url|seg|seg|...
RECURSIVE Descriptor(_, _)
Descriptor(url, segs) ==
    IF segs = <<>> THEN url
    ELSE Descriptor(url \o <<"|">> \o Head(segs), Tail(segs))

\* every descriptor of up to MaxGrammarSegs segments and the long ones for
\* one URL, the short ones for every URL
DescriptorParts ==
    { [url |-> BaseUrl, segs |-> sl] : sl \in SegLists(MaxGrammarSegs) \cup LongSegLists }
        \cup { [url |-> u, segs |-> sl] : u \in Urls, sl \in SegLists(MaxInferSegs) }

NoParts == [url |-> <<>>, segs |-> <<>>]

Keys == { <<"a">>, <<"b">>, <<"a", "_", "b">> }

Values == { <<"1">>, <<>>, <<"en", "_", "US">>, <<"x", "=", "y">> }

\* insertion-ordered mappings: sequences of pairs with distinct keys
CvsDicts ==
    { d \in UNION { [1..k -> Keys \X Values] : k \in 0..MaxCvs } :
        \A i, j \in 1..Len(d) : i # j => d[i][1] # d[j][1] }

EncoderUrls == { BaseUrl, Site \o <<"a", "|", "b">> }

Formats == { None, Some(<<"yml">>), Some(<<"tar", "|", "gz">>) }

Compressions == { None, Some(<<"gz">>), Some(<<"g", "|", "z">>) }

StatsTuples == { None, Some(<<<<"h">>, 120>>), Some(<<<<"h", ":", "h">>, 0>>) }

EncoderArgs ==
    [ url : EncoderUrls, cvs : CvsDicts, file_format : Formats,
      compression : Compressions, sha256_length_tuple : StatsTuples ]

NoArgs ==
    [ url |-> <<>>, cvs |-> <<>>, file_format |-> None,
      compression |-> None, sha256_length_tuple |-> None ]

\* what requests.get(url) may answer
StatusCodes == { 200, 399, 400, 401, 404, 500, 599 }

Contents == { <<>>, <<"x", "y">> }

Responses == [ status_code : StatusCodes, content : Contents ]

\* most distributions in one create_dataset() call
MaxDistributions == 2

\* the version identifiers a caller may pass: the documented form
\* base/account/group/artifact/version, and one too short for it
VersionIds ==
    { Site \o <<"user", "/", "group", "/", "artifact", "/",
                "1970", ".", "01", ".", "01", "/">>,
      <<"artifact", "/", "v1">> }

\* the distributions a caller may pass, as url and segments
DatasetParts ==
    { [ url |-> BaseUrl, segs |-> <<>> ],
      [ url |-> Site \o <<"data", ".", "json">>,
        segs |-> << <<>>, <<"yml">>, <<"yml">>, <<"h", ":", "1", "2">> >> ],
      [ url |-> BaseUrl,
        segs |-> << <<"b", "=", "1", "_", "a", "=", "2">>, <<"yml">>, <<"yml">>,
                    <<"h", ":", "1", "2">> >> ],
      [ url |-> BaseUrl, segs |-> << <<"b", "=", "1", "_", "a", "=", "2">> >> ],
      [ url |-> BaseUrl, segs |-> << <<"yml">> >> ],
      [ url |-> BaseUrl,
        segs |-> << <<"b", "=", "1", "_", "a", "=", "2">>, <<"yml">>, <<"yml">>,
                    <<"h", ":", "1", ":", "2">> >> ] }

DatasetPartLists == UNION { [1..k -> DatasetParts] : k \in 0..MaxDistributions }

\* the metadata arguments: the optional ones all left out, all given, and
\* the group's metadata given in part
DatasetMetas ==
    { [ title |-> <<"t">>, abstract |-> <<"a">>, description |-> <<"d">>,
        license_url |-> <<"lic">>, attribution |-> None, derived_from |-> None,
        group_title |-> None, group_abstract |-> None,
        group_description |-> None ],
      [ title |-> <<"t">>, abstract |-> <<"a">>, description |-> <<"d">>,
        license_url |-> <<"lic">>, attribution |-> Some(<<"by">>),
        derived_from |-> Some(<<"src">>), group_title |-> Some(<<"gt">>),
        group_abstract |-> Some(<<"ga">>),
        group_description |-> Some(<<"gd">>) ],
      [ title |-> <<"t">>, abstract |-> <<"a">>, description |-> <<"d">>,
        license_url |-> <<"lic">>, attribution |-> None, derived_from |-> None,
        group_title |-> Some(<<"gt">>), group_abstract |-> None,
        group_description |-> Some(<<"gd">>) ] }

(***************************************************************************)
(* State                                                                   *)
(***************************************************************************)

VARIABLES
    op,                \* the function called: "idle" before any call
    pc,                \* "idle", "load_file_stats", "loop", "dataset_loop",
                       \* "dataset_load_file_stats", "returned", "raised"
    chain,             \* "fresh"; "created": the decoder reads the encoder's
                       \* output; "decoded": the encoder gets the decoder's output
    parts,             \* url and segments the decoder's input was written from
    args,              \* the encoder's arguments
    distribution_str,  \* the decoder's argument
    created,           \* the encoder's return value
    info,              \* the decoder's locals, its return value once returned
    exc,               \* the exception raised, "none" if none
    requests,          \* the HTTP and SPARQL requests made, in order
    dl,                \* download()'s frame
    ds                 \* create_dataset()'s frame

vars ==
    << op, pc, chain, parts, args, distribution_str, created, info, exc,
       requests, dl, ds >>

NoInfo ==
    [ cvs |-> <<>>, format_extension |-> <<>>, compression |-> <<>>,
      sha256sum |-> None, content_length |-> None ]

NoDl == [ databusURIs |-> <<>>, i |-> 0, res |-> None, files |-> <<>> ]

\* create_dataset()'s frame before the call
NoDs ==
    [ version_id |-> <<>>, parts |-> <<>>, distributions |-> <<>>,
      meta |-> <<>>, i |-> 0, file_infos |-> <<>>, distribution_list |-> <<>>,
      dataset |-> None ]

Init ==
    /\ op = "idle"
    /\ pc = "idle"
    /\ chain = "fresh"
    /\ parts = NoParts
    /\ args = NoArgs
    /\ distribution_str = <<>>
    /\ created = <<>>
    /\ info = NoInfo
    /\ exc = "none"
    /\ requests = <<>>
    /\ dl = NoDl
    /\ ds = NoDs

(***************************************************************************)
(* __get_file_info (client.py:155-170)                                     *)
(***************************************************************************)

\* lines 156-166: the three resolvers in the code's order, up to the test
\* that decides whether the file has to be fetched
FileInfoParse(d) ==
    LET cv == __get_content_variants(d)
        ext == __get_extensions(d)
        st == __get_file_stats(d)
    IN  IF cv.exc # "none"
        THEN /\ pc' = "raised" /\ exc' = cv.exc /\ info' = NoInfo
        ELSE IF st.exc # "none"
        THEN /\ pc' = "raised" /\ exc' = st.exc /\ info' = NoInfo
        ELSE /\ exc' = "none"
             /\ info' = [ cvs |-> cv.cvs, format_extension |-> ext[2],
                          compression |-> ext[3], sha256sum |-> st.sha256sum,
                          content_length |-> st.content_length ]
             /\ pc' = IF st.sha256sum = None \/ st.content_length = None
                      THEN "load_file_stats" ELSE "returned"

\* __get_file_info(d) for a descriptor a caller wrote
GetFileInfo ==
    /\ pc = "idle"
    /\ \E p \in DescriptorParts :
          /\ parts' = p
          /\ distribution_str' = Descriptor(p.url, p.segs)
          /\ FileInfoParse(Descriptor(p.url, p.segs))
    /\ op' = "__get_file_info"
    /\ chain' = "fresh"
    /\ UNCHANGED << args, created, requests, dl, ds >>

\* __get_file_info(create_distribution(...))
GetFileInfoOfCreated ==
    /\ op = "create_distribution" /\ pc = "returned" /\ chain = "fresh"
    /\ distribution_str' = created
    /\ FileInfoParse(created)
    /\ op' = "__get_file_info"
    /\ chain' = "created"
    /\ UNCHANGED << parts, args, created, requests, dl, ds >>

\* lines 167-170: __load_file_stats(__url), for whatever the server answers
LoadFileStats ==
    /\ op = "__get_file_info" /\ pc = "load_file_stats"
    /\ \E resp \in Responses :
          LET __url == PyIndex(Split(distribution_str, "|"), 0)
              st == __load_file_stats(resp)
          IN  /\ requests' = Append(requests,
                     [ kind |-> "GET", url |-> __url, query |-> <<>>,
                       status_code |-> resp.status_code, body |-> resp.content,
                       result |-> <<>> ])
              /\ IF st.exc # "none"
                 THEN /\ pc' = "raised" /\ exc' = st.exc /\ info' = NoInfo
                 ELSE /\ pc' = "returned"
                      /\ exc' = "none"
                      /\ info' = [ info EXCEPT !.sha256sum = st.sha256sum,
                                               !.content_length = st.content_length ]
    /\ UNCHANGED << op, chain, parts, args, distribution_str, created, dl, ds >>

(***************************************************************************)
(* create_distribution (client.py:173-204)                                 *)
(***************************************************************************)

CreateDistribution ==
    /\ pc = "idle"
    /\ \E a \in EncoderArgs :
          /\ args' = a
          /\ created' = create_distribution(a.url, a.cvs, a.file_format,
                            a.compression, a.sha256_length_tuple)
    /\ op' = "create_distribution"
    /\ pc' = "returned"
    /\ chain' = "fresh"
    /\ UNCHANGED << parts, distribution_str, info, exc, requests, dl, ds >>

\* create_distribution(uri, cvs, formatExtension, compression,
\* (sha256sum, content_length)) on what __get_file_info returned
\* (tests/test_databusclient.py:43-54)
CreateDistributionOfInfo ==
    /\ op = "__get_file_info" /\ pc = "returned" /\ chain = "fresh"
    /\ args' = [ url |-> parts.url, cvs |-> info.cvs,
                 file_format |-> Some(info.format_extension),
                 compression |-> Some(info.compression),
                 sha256_length_tuple |->
                     Some(<<info.sha256sum[1], info.content_length[1]>>) ]
    /\ created' = create_distribution(parts.url, info.cvs,
                      Some(info.format_extension), Some(info.compression),
                      Some(<<info.sha256sum[1], info.content_length[1]>>))
    /\ op' = "create_distribution"
    /\ chain' = "decoded"
    /\ UNCHANGED << pc, parts, distribution_str, info, exc, requests, dl, ds >>

(***************************************************************************)
(* download (client.py:436-488)                                            *)
(***************************************************************************)

File1 == Site \o <<"f1", ".", "ttl">>

File2 == Site \o <<"f2", ".", "ttl">>

\* one binding of a SPARQL result: its <<variable, value>> pairs
Bindings ==
    { << <<"file", File1>> >>,
      << <<"file", File2>> >>,
      << <<"file", File1>>, <<"size", File2>> >> }

BindingLists == UNION { [1..k -> Bindings] : k \in 0..MaxBindings }

\* the identifiers a caller may pass
DatabusURIs ==
    { Site \o <<"collections", "/", "c1">>,
      <<"http", ":", "/", "/", "h", "/", "collections", "/", "c2">>,
      Site \o <<"user", "/", "group", "/", "artifact">>,
      <<"file", ":", "/", "/", "q", ".", "sparql">>,
      <<"SELECT", " ", "?", "file">> }

URILists == UNION { [1..k -> DatabusURIs] : k \in 0..MaxURIs }

\* the query text a collection URI answers with
QueryTexts == { <<"SELECT", " ", "?", "f">>, <<"SELECT", " ", "?", "g">> }

Endpoint == Site \o <<"sparql">>

LocalDir == <<"tmp">>

IsHttp(databusURI) ==
    \/ StartsWith(databusURI, <<"http", ":", "/", "/">>)
    \/ StartsWith(databusURI, <<"https", ":", "/", "/">>)

IsCollection(databusURI) == IsInfix(<<"/", "collections", "/">>, databusURI)

IsFileScheme(databusURI) == StartsWith(databusURI, <<"file", ":", "/", "/">>)

\* wsha256(raw)
wsha256(raw) == Sha256Hex(raw)

\* what the generator __handle__databus_file_query__ yields for the bindings
\* the endpoint returned: it stops at the first binding with several keys
RECURSIVE Yielded(_)
Yielded(bindings) ==
    IF bindings = <<>> \/ Len(Head(bindings)) > 1 THEN <<>>
    ELSE <<Head(bindings)[1][2]>> \o Yielded(Tail(bindings))

\* the requests __download_list__ makes for the urls, one __download_file__ each
DownloadRequests(urls) ==
    [ k \in 1..Len(urls) |->
        [ kind |-> "GET-stream", url |-> urls[k], query |-> <<>>,
          status_code |-> 200, body |-> <<>>, result |-> <<>> ] ]

\* the files __download_list__ writes
DownloadFiles(urls, localDir) ==
    [ k \in 1..Len(urls) |->
        [ filename |-> localDir \o <<"/">> \o wsha256(urls[k]), url |-> urls[k] ] ]

Download ==
    /\ pc = "idle"
    /\ \E uris \in URILists :
          dl' = [ databusURIs |-> uris, i |-> 1, res |-> None, files |-> <<>> ]
    /\ op' = "download"
    /\ pc' = "loop"
    /\ UNCHANGED << chain, parts, args, distribution_str, created, info, exc,
                    requests, ds >>

InLoop == op = "download" /\ pc = "loop" /\ dl.i <= Len(dl.databusURIs)

\* lines 476-478: the query is fetched and a generator made for it; the
\* generator is not iterated, so its body (the SPARQL query) does not run
DownloadCollection ==
    /\ InLoop
    /\ IsHttp(dl.databusURIs[dl.i]) /\ IsCollection(dl.databusURIs[dl.i])
    /\ \E text \in QueryTexts :
          /\ requests' = Append(requests,
                 [ kind |-> "GET", url |-> dl.databusURIs[dl.i], query |-> <<>>,
                   status_code |-> 200, body |-> text, result |-> <<>> ])
          /\ dl' = [ dl EXCEPT !.res = Some(text), !.i = @ + 1 ]
    /\ UNCHANGED << op, pc, chain, parts, args, distribution_str, created,
                    info, exc, ds >>

\* lines 479-480
DownloadDataId ==
    /\ InLoop
    /\ IsHttp(dl.databusURIs[dl.i]) /\ ~IsCollection(dl.databusURIs[dl.i])
    /\ dl' = [ dl EXCEPT !.i = @ + 1 ]
    /\ UNCHANGED << op, pc, chain, parts, args, distribution_str, created,
                    info, exc, requests, ds >>

\* lines 482-483
DownloadQueryFile ==
    /\ InLoop
    /\ ~IsHttp(dl.databusURIs[dl.i]) /\ IsFileScheme(dl.databusURIs[dl.i])
    /\ dl' = [ dl EXCEPT !.i = @ + 1 ]
    /\ UNCHANGED << op, pc, chain, parts, args, distribution_str, created,
                    info, exc, requests, ds >>

\* lines 485-488: the identifier is the query; __download_list__ iterates the
\* generator, which runs the query and yields the values downloaded
DownloadQuery ==
    /\ InLoop
    /\ ~IsHttp(dl.databusURIs[dl.i]) /\ ~IsFileScheme(dl.databusURIs[dl.i])
    /\ \E bindings \in BindingLists :
          /\ requests' = Append(requests,
                 [ kind |-> "SPARQL", url |-> Endpoint,
                   query |-> dl.databusURIs[dl.i], status_code |-> 200,
                   body |-> <<>>, result |-> bindings ])
                 \o DownloadRequests(Yielded(bindings))
          /\ dl' = [ dl EXCEPT !.res = Some(dl.databusURIs[dl.i]),
                               !.files = @ \o DownloadFiles(Yielded(bindings), LocalDir),
                               !.i = @ + 1 ]
    /\ UNCHANGED << op, pc, chain, parts, args, distribution_str, created,
                    info, exc, ds >>

\* the loop of line 472 is over: download returns
DownloadReturn ==
    /\ op = "download" /\ pc = "loop" /\ dl.i > Len(dl.databusURIs)
    /\ pc' = "returned"
    /\ UNCHANGED << op, chain, parts, args, distribution_str, created, info,
                    exc, requests, dl, ds >>

(***************************************************************************)
(* create_dataset (client.py:207-347)                                      *)
(***************************************************************************)

\* __get_file_info(dst_string) up to the test of line 167: what it
\* raises, what it has resolved, and whether the file has to be fetched
FileInfoParsed(dst_string) ==
    LET cv == __get_content_variants(dst_string)
        ext == __get_extensions(dst_string)
        st == __get_file_stats(dst_string)
    IN  IF cv.exc # "none" THEN [ exc |-> cv.exc, info |-> NoInfo, fetch |-> FALSE ]
        ELSE IF st.exc # "none"
        THEN [ exc |-> st.exc, info |-> NoInfo, fetch |-> FALSE ]
        ELSE [ exc |-> "none",
               info |-> [ cvs |-> cv.cvs, format_extension |-> ext[2],
                          compression |-> ext[3], sha256sum |-> st.sha256sum,
                          content_length |-> st.content_length ],
               fetch |-> st.sha256sum = None \/ st.content_length = None ]

\* mutant of WithoutContentVariants: one distribution is already too many
WithoutContentVariantsAnyLength(cvs, distributions) ==
    cvs = <<>> /\ Len(distributions) > 0

\* line 271: not cvs and len(distributions) > 1
WithoutContentVariants(cvs, distributions) ==
    cvs = <<>> /\ Len(distributions) > 1

\* the entries entity[f"dcv:{key}"] = value of lines 286-287
RECURSIVE DcvLoop(_, _)
DcvLoop(items, entity) ==
    IF items = <<>> THEN entity
    ELSE DcvLoop(Tail(items),
                 DictSet(entity, <<"dcv", ":">> \o Head(items)[1], Head(items)[2]))

\* lines 277-287: the Part of one distribution
PartEntity(__url, file_info) ==
    DcvLoop(file_info.cvs,
        << << <<"@type">>, <<"Part">> >>,
           << <<"formatExtension">>, file_info.format_extension >>,
           << <<"compression">>, file_info.compression >>,
           << <<"downloadURL">>, __url >>,
           << <<"byteSize">>, file_info.content_length[1] >>,
           << <<"sha256sum">>, file_info.sha256sum[1] >> >>)

\* lines 294-308: the group's graph, if all of its metadata is set
GroupGraphs(group_id, meta) ==
    IF None \notin { meta.group_title, meta.group_description, meta.group_abstract }
    THEN << << << <<"@id">>, group_id >>,
               << <<"@type">>, <<"Group">> >>,
               << <<"title">>, meta.group_title[1] >>,
               << <<"abstract">>, meta.group_abstract[1] >>,
               << <<"description">>, meta.group_description[1] >> >> >>
    ELSE <<>>

\* lines 312-319
ArtifactGraph(artifact_id, meta) ==
    << << <<"@id">>, artifact_id >>,
       << <<"@type">>, <<"Artifact">> >>,
       << <<"title">>, meta.title >>,
       << <<"abstract">>, meta.abstract >>,
       << <<"description">>, meta.description >> >>

\* lines 330-332
append_to_dataset_graph_if_existent(dataset_graph, add_key, add_value) ==
    IF add_value # None THEN DictSet(dataset_graph, add_key, add_value[1])
    ELSE dataset_graph

\* lines 323-339
DatasetGraph(_versionId, version, meta, distribution_list) ==
    append_to_dataset_graph_if_existent(
        append_to_dataset_graph_if_existent(
            << << <<"@type">>, << <<"Version">>, <<"Dataset">> >> >>,
               << <<"@id">>, _versionId >>,
               << <<"hasVersion">>, version >>,
               << <<"title">>, meta.title >>,
               << <<"abstract">>, meta.abstract >>,
               << <<"description">>, meta.description >>,
               << <<"license">>, meta.license_url >>,
               << <<"distribution">>, distribution_list >> >>,
            <<"attribution">>, meta.attribution),
        <<"wasDerivedFrom">>, meta.derived_from)

ContextUrl ==
    <<"https", ":", "/", "/", "downloads", ".", "dbpedia", ".", "org", "/",
      "databus", "/", "context", ".", "jsonld">>

\* lines 291-345: the document for the Parts assembled
DatasetDocument(version_id, meta, distribution_list) ==
    LET _versionId == Strip(version_id, {"/"})
        version == PyIndex(RSplit(_versionId, "/", 4), 4)
        group_id == PyIndex(RSplit(_versionId, "/", 2), 0)
        artifact_id == PyIndex(RSplit(_versionId, "/", 1), 0)
        graphs == GroupGraphs(group_id, meta)
                      \o << ArtifactGraph(artifact_id, meta),
                            DatasetGraph(_versionId, version, meta, distribution_list) >>
    IN  << << <<"@context">>, ContextUrl >>, << <<"@graph">>, graphs >> >>

\* lines 251-260: the call; the unpacking of line 252 needs five pieces
CreateDataset ==
    /\ pc = "idle"
    /\ \E version_id \in VersionIds, pl \in DatasetPartLists, meta \in DatasetMetas :
          /\ ds' = [ NoDs EXCEPT
                        !.version_id = version_id,
                        !.parts = pl,
                        !.distributions =
                            [ k \in 1..Len(pl) |-> Descriptor(pl[k].url, pl[k].segs) ],
                        !.meta = meta,
                        !.i = 1 ]
          /\ IF Len(RSplit(Strip(version_id, {"/"}), "/", 4)) # 5
             THEN pc' = "raised" /\ exc' = "ValueError"
             ELSE pc' = "dataset_loop" /\ exc' = "none"
    /\ op' = "create_dataset"
    /\ UNCHANGED << chain, parts, args, distribution_str, created, info,
                    requests, dl >>

\* lines 270-289 for what __get_file_info returned: the distribution is
\* refused, or its Part is appended and the loop goes on
DatasetAppend(file_info) ==
    LET __url == PyIndex(Split(ds.distributions[ds.i], "|"), 0)
    IN  /\ info' = file_info
        /\ IF WithoutContentVariants(file_info.cvs, ds.distributions)
           THEN /\ pc' = "raised"
                /\ exc' = "BadArgumentException"
                /\ ds' = [ ds EXCEPT !.file_infos = Append(@, file_info) ]
           ELSE /\ pc' = "dataset_loop"
                /\ exc' = "none"
                /\ ds' = [ ds EXCEPT
                              !.file_infos = Append(@, file_info),
                              !.distribution_list =
                                  Append(@, PartEntity(__url, file_info)),
                              !.i = @ + 1 ]

InDatasetLoop ==
    op = "create_dataset" /\ pc = "dataset_loop" /\ ds.i <= Len(ds.distributions)

\* lines 261-269: the next distribution is decoded, up to the fetch of its
\* file if it names no checksum and length, else to the end of the iteration
DatasetGetFileInfo ==
    /\ InDatasetLoop
    /\ LET r == FileInfoParsed(ds.distributions[ds.i])
       IN  IF r.exc # "none"
           THEN /\ pc' = "raised" /\ exc' = r.exc /\ info' = NoInfo
                /\ UNCHANGED ds
           ELSE IF r.fetch
           THEN /\ pc' = "dataset_load_file_stats" /\ exc' = "none"
                /\ info' = r.info
                /\ UNCHANGED ds
           ELSE DatasetAppend(r.info)
    /\ distribution_str' = ds.distributions[ds.i]
    /\ UNCHANGED << op, chain, parts, args, created, requests, dl >>

\* client.py:167-170 inside the loop: the file is fetched, for whatever
\* the server answers, and the iteration goes on to its end
DatasetLoadFileStats ==
    /\ op = "create_dataset" /\ pc = "dataset_load_file_stats"
    /\ \E resp \in Responses :
          LET __url == PyIndex(Split(distribution_str, "|"), 0)
              st == __load_file_stats(resp)
          IN  /\ requests' = Append(requests,
                     [ kind |-> "GET", url |-> __url, query |-> <<>>,
                       status_code |-> resp.status_code, body |-> resp.content,
                       result |-> <<>> ])
              /\ IF st.exc # "none"
                 THEN /\ pc' = "raised" /\ exc' = st.exc /\ info' = NoInfo
                      /\ UNCHANGED ds
                 ELSE DatasetAppend([ info EXCEPT
                                         !.sha256sum = st.sha256sum,
                                         !.content_length = st.content_length ])
    /\ UNCHANGED << op, chain, parts, args, distribution_str, created, dl >>

\* lines 291-347: the loop is over, the document is assembled and returned
DatasetReturn ==
    /\ op = "create_dataset" /\ pc = "dataset_loop"
    /\ ds.i > Len(ds.distributions)
    /\ ds' = [ ds EXCEPT !.dataset =
                  Some(DatasetDocument(ds.version_id, ds.meta, ds.distribution_list)) ]
    /\ pc' = "returned"
    /\ UNCHANGED << op, chain, parts, args, distribution_str, created, info,
                    exc, requests, dl >>

Next ==
    \/ GetFileInfo
    \/ GetFileInfoOfCreated
    \/ LoadFileStats
    \/ CreateDistribution
    \/ CreateDistributionOfInfo
    \/ Download
    \/ DownloadCollection
    \/ DownloadDataId
    \/ DownloadQueryFile
    \/ DownloadQuery
    \/ DownloadReturn
    \/ CreateDataset
    \/ DatasetGetFileInfo
    \/ DatasetLoadFileStats
    \/ DatasetReturn

Spec == Init /\ [][Next]_vars

(***************************************************************************)
(* What the claims speak of, read off the parts a descriptor was written   *)
(* from (not off the code's own splitting)                                 *)
(***************************************************************************)

\* the state holds a call of __get_file_info on a descriptor written from parts
Decoding == op = "__get_file_info" /\ chain = "fresh"

\* the last position of c in s, 0 if none
LastPos(s, c) ==
    IF Contains(s, c)
    THEN CHOOSE k \in 1..Len(s) : s[k] = c /\ \A j \in (k + 1)..Len(s) : s[j] # c
    ELSE 0

\* the first position of c in s, Len(s) + 1 if none
FirstPos(s, c) ==
    IF Contains(s, c)
    THEN CHOOSE k \in 1..Len(s) : s[k] = c /\ \A j \in 1..(k - 1) : s[j] # c
    ELSE Len(s) + 1

AfterLast(s, c) == SubSeq(s, LastPos(s, c) + 1, Len(s))

BeforeLast(s, c) == SubSeq(s, 1, LastPos(s, c) - 1)

BeforeFirst(s, c) == SubSeq(s, 1, FirstPos(s, c) - 1)

\* the last segment after the URL contains a colon
LastHasColon(segs) == segs # <<>> /\ Contains(segs[Len(segs)], ":")

\* the explicit checksum:length pairs among Segs, with what they say
ExplicitStats ==
    { [ seg |-> <<"h", ":", "1", "2">>, sha256sum |-> <<"h">>, content_length |-> 12 ] }

\* the final path segment of the URL, its "#fragment" removed first
UrlFileName(url) == AfterLast(BeforeFirst(url, "#"), "/")

\* <<format, compression>> as the dots of the URL's file name give them
InferredFromUrl(url) ==
    LET name == UrlFileName(url)
    IN  IF Count(name, ".") = 0 THEN << <<"file">>, <<"none">> >>
        ELSE IF Count(name, ".") = 1 THEN << AfterLast(name, "."), <<"none">> >>
        ELSE << AfterLast(BeforeLast(name, "."), "."), AfterLast(name, ".") >>

(***************************************************************************)
(* C1  round trip: encode, then decode                                     *)
(***************************************************************************)

\* the state holds __get_file_info(create_distribution(args))
DecodingCreated == op = "__get_file_info" /\ chain = "created"

\* format, compression and the (checksum, byte_length) pair were all supplied
AllExplicit(a) ==
    a.file_format # None /\ a.compression # None /\ a.sha256_length_tuple # None

NoneOf(s, chars) == \A i \in 1..Len(s) : s[i] \notin chars

\* no field holds a character the descriptor grammar delimits that field with
DelimiterFree(a) ==
    /\ NoneOf(a.url, {"|"})
    /\ \A i \in 1..Len(a.cvs) :
          NoneOf(a.cvs[i][1], {"|", "_", "="}) /\ NoneOf(a.cvs[i][2], {"|", "_", "="})
    /\ NoneOf(a.file_format[1], {"|"})
    /\ NoneOf(a.compression[1], {"|"})
    /\ NoneOf(a.sha256_length_tuple[1][1], {"|", ":"})

\* the decoder returned exactly what the encoder was given
DecodedIsGiven ==
    /\ pc = "returned"
    /\ info.cvs = args.cvs
    /\ info.format_extension = args.file_format[1]
    /\ info.compression = args.compression[1]
    /\ info.sha256sum = Some(args.sha256_length_tuple[1][1])
    /\ info.content_length = Some(args.sha256_length_tuple[1][2])

\* C1 as stated: for every record with format, compression and
\* (checksum, byte_length) explicit, decoding the encoded string returns the
\* record's variants (in insertion order), format, compression, checksum
\* and byte_length.
C1_RoundTripEveryRecord ==
    (DecodingCreated /\ AllExplicit(args)) => DecodedIsGiven

\* C1 amended: the same, for the records none of whose fields holds a
\* character that delimits it in the descriptor string ("|" anywhere, "_" and
\* "=" in a variant key or value, ":" in the checksum).
C1_RoundTrip ==
    (DecodingCreated /\ AllExplicit(args) /\ DelimiterFree(args)) => DecodedIsGiven

\* C1 witness: a record with two variants inserted in the order b, a (not
\* sorted) was encoded and decoded back.
C1_Witness ==
    /\ DecodingCreated /\ AllExplicit(args) /\ DelimiterFree(args)
    /\ pc = "returned"
    /\ Len(args.cvs) = 2 /\ args.cvs[1][1] = <<"b">> /\ args.cvs[2][1] = <<"a">>
    /\ info.cvs = args.cvs

(***************************************************************************)
(* C2  decode, then encode again (tests/test_databusclient.py:10-56)       *)
(***************************************************************************)

\* a variants segment as the encoder writes one: key=value tokens, no
\* wrapping underscores
IsVariantsSeg(seg) ==
    /\ seg # <<>>
    /\ Head(seg) # "_" /\ seg[Len(seg)] # "_"
    /\ \A k \in 1..Len(Split(seg, "_")) : Count(Split(seg, "_")[k], "=") = 1

\* a format or compression label
IsLabelSeg(seg) == seg # <<>> /\ NoneOf(seg, {":", "=", "_", ".", "/", "#"} \cup Whitespace)

IsStatsSeg(seg) == \E e \in ExplicitStats : seg = e.seg

\* url|variants|format|compression|checksum:length with the variants emptied,
\* or the compression left out, or the checksum:length left out
LeftOutOne(segs) ==
    \/ /\ Len(segs) = 4
       /\ segs[1] = <<>> /\ IsLabelSeg(segs[2]) /\ IsLabelSeg(segs[3]) /\ IsStatsSeg(segs[4])
    \/ /\ Len(segs) = 3
       /\ IsVariantsSeg(segs[1]) /\ IsLabelSeg(segs[2]) /\ IsStatsSeg(segs[3])
    \/ /\ Len(segs) = 3
       /\ IsVariantsSeg(segs[1]) /\ IsLabelSeg(segs[2]) /\ IsLabelSeg(segs[3])

\* C2 as stated: for a descriptor with the variants emptied, or the
\* compression left out, or the checksum:length left out, create_distribution
\* on what __get_file_info returned gives back the descriptor.
C2_ReencodeReproduces ==
    (op = "create_distribution" /\ chain = "decoded" /\ LeftOutOne(parts.segs))
        => created = distribution_str

(***************************************************************************)
(* C3  a descriptor that is only a URL ending in data.json.gz              *)
(***************************************************************************)

\* the decoder has resolved the labels of a bare URL .../data.json.gz
DecodedBareJsonGz ==
    /\ Decoding
    /\ parts.segs = <<>>
    /\ AfterLast(parts.url, "/") = <<"data", ".", "json", ".", "gz">>
    /\ pc \in {"load_file_stats", "returned"}

\* C3 as stated: decoding a bare URL .../data.json.gz yields format "json",
\* compression "gzip" and no content variants.
C3_DefaultInferenceGzip ==
    DecodedBareJsonGz =>
        /\ info.format_extension = <<"json">>
        /\ info.compression = <<"gzip">>
        /\ info.cvs = <<>>

\* C3 amended: decoding a bare URL .../data.json.gz yields format "json",
\* compression "gz" (the URL's suffix as written) and no content variants.
C3_DefaultInference ==
    DecodedBareJsonGz =>
        /\ info.format_extension = <<"json">>
        /\ info.compression = <<"gz">>
        /\ info.cvs = <<>>

\* C3 witness: such a decoding returned, the file fetched.
C3_Witness == DecodedBareJsonGz /\ pc = "returned" /\ Len(requests) = 1

(***************************************************************************)
(* C4  positional resolution of the explicit format and compression        *)
(***************************************************************************)

\* <<format, compression>> by the number of segments after the URL and the
\* colon in the last one; segs[1] is the variants segment (segment 0)
Positional(segs) ==
    LET n == Len(segs)
        c == LastHasColon(segs)
    IN  CASE n = 4 -> <<Some(segs[2]), Some(segs[3])>>
          [] n = 3 /\ c -> <<Some(segs[2]), None>>
          [] n = 3 /\ ~c -> <<Some(segs[2]), Some(segs[3])>>
          [] n = 2 /\ c -> <<None, None>>
          [] n = 2 /\ ~c -> <<Some(segs[2]), None>>
          [] OTHER -> <<None, None>>

\* C4: __get_filetype_definition returns (segment 1, segment 2) for 4
\* segments; (segment 1, None) for 3 with a colon in the last; (segment 1,
\* segment 2) for 3 without; (None, None) for 2 with a colon in the last;
\* (segment 1, None) for 2 without; (None, None) for fewer than 2 or more
\* than 4: a trailing checksum:length is never the format or compression.
C4_PositionalResolution ==
    Decoding => __get_filetype_definition(distribution_str) = Positional(parts.segs)

\* C4 witness: a descriptor url|variants|checksum:length was decoded.
C4_Witness ==
    /\ Decoding /\ pc = "returned"
    /\ Len(parts.segs) = 2 /\ LastHasColon(parts.segs)
    /\ IsVariantsSeg(parts.segs[1])

(***************************************************************************)
(* C5  explicit checksum:length: no fetch                                  *)
(***************************************************************************)

HasExplicitStats(segs) == segs # <<>> /\ IsStatsSeg(segs[Len(segs)])

\* C5: while and after decoding a descriptor whose last segment is an
\* explicit checksum:length, no request has been made and none is pending;
\* the checksum and length returned are the ones written.
C5_ExplicitStatsBypassFetch ==
    (Decoding /\ HasExplicitStats(parts.segs)) =>
        /\ requests = <<>>
        /\ pc # "load_file_stats"
        /\ pc = "returned" =>
              \E e \in ExplicitStats :
                  /\ parts.segs[Len(parts.segs)] = e.seg
                  /\ info.sha256sum = Some(e.sha256sum)
                  /\ info.content_length = Some(e.content_length)

\* C5 witness: a fully explicit descriptor was decoded.
C5_Witness ==
    /\ Decoding /\ pc = "returned"
    /\ Len(parts.segs) = 4 /\ HasExplicitStats(parts.segs)

(***************************************************************************)
(* C6  an error status of the fetch                                        *)
(***************************************************************************)

\* C6 as stated: when the file had to be fetched, every status from 400 to
\* 599 ends the decoding in a transport error and no record; any other
\* status gives the digest and length of the body.
C6_TransportFailure ==
    (op = "__get_file_info" /\ requests # <<>>) =>
        LET r == requests[Len(requests)]
        IN  IF r.status_code \in 400..599
            THEN pc = "raised" /\ exc = "RequestException" /\ info = NoInfo
            ELSE /\ pc = "returned"
                 /\ info.sha256sum = Some(Sha256Hex(r.body))
                 /\ info.content_length = Some(Len(r.body))

(***************************************************************************)
(* C7  malformed fields                                                    *)
(***************************************************************************)

\* the last segment has a colon but does not split on ":" into two parts
BadStats(segs) == LastHasColon(segs) /\ Count(segs[Len(segs)], ":") # 1

\* some "_"-separated token of the segment, its wrapping underscores
\* stripped, has no "="
HasTokenWithoutEq(seg) ==
    \E k \in 1..Len(Split(Strip(seg, {"_"}), "_")) :
        ~Contains(Split(Strip(seg, {"_"}), "_")[k], "=")

\* C7 as stated: a descriptor whose last segment has a colon and does not
\* split into two parts, or whose non-empty variants segment has a token
\* without "=", ends in an error and no record.
C7_MalformedFailsHard ==
    ( /\ Decoding
      /\ \/ BadStats(parts.segs)
         \/ /\ parts.segs # <<>>
            /\ parts.segs[1] # <<>>
            /\ HasTokenWithoutEq(parts.segs[1]) )
        => (pc = "raised" /\ exc = "ValueError" /\ info = NoInfo)

\* C7 amended: the same, for a variants segment that is not blank (not empty
\* and not only whitespace: a blank one decodes to the empty mapping), its
\* tokens taken after the leading and trailing underscores are stripped.
C7_MalformedNonBlankFailsHard ==
    ( /\ Decoding
      /\ \/ BadStats(parts.segs)
         \/ /\ parts.segs # <<>>
            /\ Strip(parts.segs[1], Whitespace) # <<>>
            /\ HasTokenWithoutEq(parts.segs[1]) )
        => (pc = "raised" /\ exc = "ValueError" /\ info = NoInfo)

\* C7 witness: well-formed variants, a last segment of three colon-separated
\* parts, and the decoding raised.
C7_Witness ==
    /\ Decoding /\ pc = "raised"
    /\ Len(parts.segs) = 3 /\ IsVariantsSeg(parts.segs[1])
    /\ BadStats(parts.segs)

(***************************************************************************)
(* C8  defaults only as a last resort                                      *)
(***************************************************************************)

\* the labels of the decoded record are resolved; the descriptor is one
\* where what gives a label is not in question: the explicit format and
\* compression are plain labels and the URL has no fragment
LabelsResolved ==
    /\ Decoding /\ pc \in {"load_file_stats", "returned"}
    /\ ~Contains(parts.url, "#")
    /\ \A k \in 1..2 :
          Positional(parts.segs)[k] # None => IsLabelSeg(Positional(parts.segs)[k][1])

\* C8 as stated: the format is "file", and the compression "none", only when
\* neither the segments nor the URL's file name give that label; with the
\* format explicit and the compression segment absent, the compression
\* suffix of the URL's file name is the compression.
C8_DefaultsLastResort ==
    LabelsResolved =>
        LET given == Positional(parts.segs)
            dots == Count(UrlFileName(parts.url), ".")
        IN  /\ info.format_extension = <<"file">> => (given[1] = None /\ dots = 0)
            /\ info.compression = <<"none">> => (given[2] = None /\ dots < 2)
            /\ (given[1] # None /\ given[2] = None /\ dots >= 2)
                  => info.compression = InferredFromUrl(parts.url)[2]

(***************************************************************************)
(* C9  inference from the URL's file name                                  *)
(***************************************************************************)

\* C9 as stated: with no explicit format, __get_extensions returns, for the
\* URL's final path segment with any "#fragment" removed: ("file", "none")
\* if it has no dot, (the piece after the dot, "none") if it has one, (the
\* second-to-last piece, the last piece) if it has more; for every URL, also
\* one whose fragment contains "/" or ".".
C9_UrlSuffixInference ==
    (Decoding /\ Positional(parts.segs)[1] = None) =>
        LET e == __get_extensions(distribution_str)
        IN  <<e[2], e[3]>> = InferredFromUrl(parts.url)

(***************************************************************************)
(* C10  download of a collection                                           *)
(***************************************************************************)

\* every value of the result's bindings, in result order
ResultUris(bindings) == [ j \in 1..Len(bindings) |-> bindings[j][1][2] ]

\* from request q on: the query text run against the endpoint, then one
\* download per file of its result, in order, each written under sha256(URI)
QueriedAndDownloaded(text, q) ==
    /\ q \in 1..Len(requests)
    /\ requests[q].kind = "SPARQL"
    /\ requests[q].url = Endpoint
    /\ requests[q].query = text
    /\ LET urls == ResultUris(requests[q].result)
       IN  /\ q + Len(urls) <= Len(requests)
           /\ \A j \in 1..Len(urls) :
                 /\ requests[q + j].kind = "GET-stream"
                 /\ requests[q + j].url = urls[j]
                 /\ \E f \in 1..Len(dl.files) :
                       /\ dl.files[f].url = urls[j]
                       /\ dl.files[f].filename = LocalDir \o <<"/">> \o wsha256(urls[j])

\* C10 as stated: when download() has returned, for every identifier that is
\* an http(s) URI containing "/collections/" the collection's query was
\* fetched, run against the endpoint, and every file of the result
\* downloaded into localDir under the name sha256(URI), in result order.
C10_CollectionDownloaded ==
    (op = "download" /\ pc = "returned") =>
        \A k \in 1..Len(dl.databusURIs) :
            (IsHttp(dl.databusURIs[k]) /\ IsCollection(dl.databusURIs[k])) =>
                \E g \in 1..Len(requests) :
                    /\ requests[g].kind = "GET"
                    /\ requests[g].url = dl.databusURIs[k]
                    /\ \E q \in (g + 1)..Len(requests) :
                          QueriedAndDownloaded(requests[g].body, q)

(***************************************************************************)
(* Dataset assembly                                                        *)
(***************************************************************************)

\* create_dataset is over: it returned or it raised
DatasetDone == op = "create_dataset" /\ pc \in {"returned", "raised"}

\* the version identifier has the documented form
\* base/account/group/artifact/version
DocumentedVersionId == Count(Strip(ds.version_id, {"/"}), "/") >= 4

\* d[key]
DictGet(d, key) == d[CHOOSE i \in 1..Len(d) : d[i][1] = key][2]

\* the distribution was written without content variants: no segment after
\* the URL, or a blank first one
VariantsLeftOut(p) == p.segs = <<>> \/ Strip(p.segs[1], Whitespace) = <<>>

\* the k-th distribution passed decodes to an empty mapping: its variants are
\* left out, and it names its checksum and length or its file was fetched
DecodesToEmpty(k) ==
    /\ VariantsLeftOut(ds.parts[k])
    /\ \/ HasExplicitStats(ds.parts[k].segs)
       \/ ~LastHasColon(ds.parts[k].segs) /\ k <= Len(ds.file_infos)

\* the loop got to the k-th distribution and decoded it: none before it, nor
\* itself, made the decoder raise
Decoded(k) == k <= Len(ds.file_infos)

\* the Parts of the document returned: the distribution of its last graph
ReturnedParts ==
    LET graphs == DictGet(ds.dataset[1], <<"@graph">>)
    IN  DictGet(graphs[Len(graphs)], <<"distribution">>)

\* the Part carries what was decoded from the distribution written as p;
\* checksum and length are the ones named, or those of the file fetched
PartCarries(part, p, file_info) ==
    /\ DictGet(part, <<"@type">>) = <<"Part">>
    /\ DictGet(part, <<"formatExtension">>) = file_info.format_extension
    /\ DictGet(part, <<"compression">>) = file_info.compression
    /\ DictGet(part, <<"downloadURL">>) = p.url
    /\ IF HasExplicitStats(p.segs)
       THEN \E e \in ExplicitStats :
               /\ e.seg = p.segs[Len(p.segs)]
               /\ DictGet(part, <<"byteSize">>) = e.content_length
               /\ DictGet(part, <<"sha256sum">>) = e.sha256sum
       ELSE /\ Len(requests) = 1
            /\ requests[1].url = p.url
            /\ DictGet(part, <<"byteSize">>) = Len(requests[1].body)
            /\ DictGet(part, <<"sha256sum">>) = Sha256Hex(requests[1].body)

\* a single distribution that decodes to an empty mapping is accepted: the
\* document is returned and its one Part carries what was decoded
SingleEmptyAccepted ==
    (Len(ds.parts) = 1 /\ DecodesToEmpty(1))
        => /\ pc = "returned"
           /\ ds.dataset # None
           /\ Len(ReturnedParts) = 1
           /\ PartCarries(ReturnedParts[1], ds.parts[1], ds.file_infos[1])

\* C11 as stated: for a version identifier of the documented form,
\* create_dataset accepts a single distribution whose content variants are
\* empty and returns a document whose Part carries the decoded
\* formatExtension, compression, downloadURL, byteSize and sha256sum; it
\* raises BadArgumentException, returning no document, exactly when more than
\* one distribution is passed and some distribution decodes to an empty
\* content-variant mapping.
C11_EmptyVariantsRefused ==
    (DatasetDone /\ DocumentedVersionId)
        => /\ SingleEmptyAccepted
           /\ (pc = "raised") => (ds.dataset = None)
           /\ (exc = "BadArgumentException")
                  <=> /\ Len(ds.parts) > 1
                      /\ \E k \in 1..Len(ds.parts) : DecodesToEmpty(k)

\* C11 amended: for a version identifier of the documented form,
\* create_dataset accepts a single distribution whose content variants are
\* empty and returns a document whose Part carries the decoded
\* formatExtension, compression, downloadURL, byteSize and sha256sum; a
\* distribution decodes to an empty mapping exactly when its variants are
\* left out; it raises BadArgumentException, returning no document, exactly
\* when more than one distribution is passed and some distribution decodes to
\* an empty content-variant mapping with every distribution before it decoded
\* without error.
C11_EmptyVariantsRefusedInOrder ==
    (DatasetDone /\ DocumentedVersionId)
        => /\ SingleEmptyAccepted
           /\ (pc = "raised") => (ds.dataset = None)
           /\ \A k \in 1..Len(ds.file_infos) :
                 (ds.file_infos[k].cvs = <<>>) <=> VariantsLeftOut(ds.parts[k])
           /\ (exc = "BadArgumentException")
                  <=> /\ Len(ds.parts) > 1
                      /\ \E k \in 1..Len(ds.parts) :
                            Decoded(k) /\ DecodesToEmpty(k)

\* two distributions, the first decoded and kept, the second fetched, decoded
\* to an empty mapping and refused
C11_Witness ==
    /\ DatasetDone /\ DocumentedVersionId
    /\ exc = "BadArgumentException"
    /\ Len(ds.parts) = 2
    /\ Len(ds.distribution_list) = 1
    /\ Len(ds.file_infos) = 2
    /\ ds.file_infos[2].cvs = <<>>
    /\ Len(requests) >= 1
    /\ ds.dataset = None

\* a single distribution without content variants, accepted
C11_SingleAccepted ==
    /\ DatasetDone /\ DocumentedVersionId
    /\ pc = "returned"
    /\ Len(ds.parts) = 1
    /\ ds.file_infos[1].cvs = <<>>
    /\ Len(requests) = 1

====
